---- MODULE Spec2Model ----
(***************************************************************************)
(* Model of dropdown/helpers.py (django-rest-dropdown): the module-level   *)
(* DROPDOWN_LIMIT initialisation, from_model and from_choices.             *)
(*                                                                         *)
(* Strings that the code parses (field paths) are sequences of tokens:     *)
(* "dept.name" is <<"dept", ".", "name">>, its relation form "dept__name"  *)
(* is <<"dept", "__", "name">>.  The database holds one table of items     *)
(* (pk, name, dept_id), a fixed table of departments reached by the        *)
(* forward relation "dept", and a fixed table of tags pointing at items    *)
(* (the reverse, multi-valued relation a filter can fan out over).         *)
(***************************************************************************)
EXTENDS Integers, Sequences, FiniteSets, TLC

\* ------------------------------------------------------------------ bounds

\* Primary keys of the item table are 1..MaxPk.
MaxPk == 3

\* from_choices is applied to at most MaxChoices members.
MaxChoices == 3

\* ------------------------------------------------------------- data domain

Pks == 1..MaxPk
Names == {1, 2}
DeptIds == {1, 2}

DeptTable == [d \in DeptIds |-> [pk |-> d, name |-> 4 + d]]

\* tag rows: two tags on item 1, one tag on item 2, none on the others
TagTable == {[pk |-> 1, item |-> 1], [pk |-> 2, item |-> 1], [pk |-> 3, item |-> 2]}

\* items 1 and 2 belong to department 1, the others to department 2
DeptOf(pk) == IF pk <= 2 THEN 1 ELSE 2

ItemRows == {[pk |-> p, name |-> n, dept_id |-> DeptOf(p)] : p \in Pks, n \in Names}

\* the item table: any set of rows with a unique primary key
Databases == {d \in SUBSET ItemRows : \A a, b \in d : a.pk = b.pk => a = b}

None == <<"None">>

F_pk == <<"pk">>
F_name == <<"name">>
F_dept_name == <<"dept", ".", "name">>

LabelFields == {None, F_name, F_dept_name}
ValueFields == {F_pk, F_name}
ContextFieldLists == {<<>>, <<F_dept_name>>, <<F_dept_name, F_name>>}

\* Q objects: no filter, Q(name=1), Q(tag__isnull=False)
QFilters == {"None", "name=1", "tag__isnull=False"}

Range(s) == {s[i] : i \in 1..Len(s)}

Min(a, b) == IF a < b THEN a ELSE b

\* ------------------------------------------------------------------- utils

dot_to_relation(field) ==
    [i \in 1..Len(field) |-> IF field[i] = "." THEN "__" ELSE field[i]]

LastDot(field) ==
    LET dots == {i \in 1..Len(field) : field[i] = "."}
    IN IF dots = {} THEN 0 ELSE CHOOSE i \in dots : \A j \in dots : j <= i

extract_select_related(field) ==
    IF LastDot(field) = 0
    THEN None
    ELSE dot_to_relation(SubSeq(field, 1, LastDot(field) - 1))

\* --------------------------------------------------- module initialisation

DefaultLimit == 100

LimitValues == {0, 1, 2}

SettingsStates ==
    {[kind |-> k, LIMIT |-> 0] :
        k \in {"unconfigured", "no_DROPDOWN", "dict_without_LIMIT", "not_a_mapping"}}
    \cup {[kind |-> "dict", LIMIT |-> n] : n \in LimitValues}

\* what evaluating settings.DROPDOWN['LIMIT'] raises ("" when it raises nothing)
SettingsLookup(s) ==
    CASE s.kind = "unconfigured" -> "ImproperlyConfigured"
      [] s.kind = "no_DROPDOWN" -> "AttributeError"
      [] s.kind = "dict_without_LIMIT" -> "KeyError"
      [] s.kind = "not_a_mapping" -> "TypeError"
      [] OTHER -> ""

CaughtAtImport == {"ImproperlyConfigured", "AttributeError", "IndexError"}

\* ---------------------------------------------------------------- queryset

\* related_items of from_model: one entry per dotted path, None entries dropped
NotNone(x) == x # None

related_items_of(label_field, value_field, context_fields) ==
    SelectSeq(
        <<IF label_field # None THEN extract_select_related(label_field) ELSE None,
          extract_select_related(value_field)>>
        \o [i \in 1..Len(context_fields) |-> extract_select_related(context_fields[i])],
        NotNone)

only_fields_of(label_field, value_field, context_fields) ==
    <<dot_to_relation(label_field), dot_to_relation(value_field)>>
    \o [i \in 1..Len(context_fields) |-> dot_to_relation(context_fields[i])]

\* ordering by the value field whatever the label field is
order_by_value(label_field, value_field) == value_field

\* order_by = label_field or value_field: None and the empty string are falsy
order_by_of(label_field, value_field) ==
    IF label_field # None /\ label_field # <<>> THEN label_field ELSE value_field

\* the lazy query description built by lines 39-73
BuildQueryset(label_field, value_field, q_filter, context_fields) ==
    [select_related |-> related_items_of(label_field, value_field, context_fields),
     filter |-> q_filter,
     has_only |-> label_field # None,
     only |-> IF label_field # None
              THEN only_fields_of(label_field, value_field, context_fields)
              ELSE <<>>,
     order_by |-> dot_to_relation(order_by_of(label_field, value_field)),
     distinct |-> TRUE]

\* --- what the database does with a query description

ItemColumns == {<<"pk">>, <<"name">>, <<"dept_id">>}
DeptColumns == {<<"pk">>, <<"name">>}

\* columns of the SELECT: only() keeps the primary keys and the named fields
Columns(qs) ==
    IF qs.has_only
    THEN {<<"pk">>} \cup Range(qs.only)
         \cup {r \o <<"__", "pk">> : r \in Range(qs.select_related)}
    ELSE ItemColumns
         \cup {r \o <<"__">> \o c : r \in Range(qs.select_related), c \in DeptColumns}

RECURSIVE Resolve(_, _)
Resolve(row, col) ==
    IF Len(col) = 1
    THEN row[col[1]]
    ELSE Resolve(DeptTable[row.dept_id], SubSeq(col, 3, Len(col)))

\* rows of the FROM/WHERE: <<item, tag pk>>, tag pk 0 when the filter joins nothing
JoinRows(qs, db) ==
    CASE qs.filter = "None" -> {<<it, 0>> : it \in db}
      [] qs.filter = "name=1" -> {<<it, 0>> : it \in {i \in db : i.name = 1}}
      [] OTHER -> {<<p[1], p[2].pk>> :
                      p \in {q \in db \X TagTable : q[2].item = q[1].pk}}

SelectRow(qs, it) == [c \in Columns(qs) |-> Resolve(it, c)]

\* the result rows: DISTINCT collapses rows equal on every selected column
ResultRows(qs, db) ==
    IF qs.distinct
    THEN {<<SelectRow(qs, p[1]), 0>> : p \in JoinRows(qs, db)}
    ELSE {<<SelectRow(qs, p[1]), p[2]>> : p \in JoinRows(qs, db)}

\* ORDER BY one column, ascending: rows that tie come in an order the
\* database chooses
Orderings(qs, db) ==
    LET K == ResultRows(qs, db)
        n == Cardinality(K)
    IN {s \in [1..n -> K] :
          /\ \A i, j \in 1..n : i # j => s[i] # s[j]
          /\ \A i \in 1..n : \A j \in 1..n :
                i < j => s[i][1][qs.order_by] <= s[j][1][qs.order_by]}

\* the model instance built from a row: joined columns become a related object
RECURSIVE FromDb(_)
FromDb(row) ==
    LET plain == {c[1] : c \in {d \in DOMAIN row : Len(d) = 1}}
        rels == {c[1] : c \in {d \in DOMAIN row : Len(d) > 1}}
        Sub(a) == {SubSeq(d, 3, Len(d)) : d \in {e \in DOMAIN row : Len(e) > 1 /\ e[1] = a}}
    IN [a \in plain \cup rels |->
          IF a \in rels
          THEN FromDb([c \in Sub(a) |-> row[<<a, "__">> \o c]])
          ELSE row[<<a>>]]

\* counting the joined rows, before DISTINCT collapses them
Count_BeforeDistinct(qs, db) == Cardinality(JoinRows(qs, db))

\* queryset.count()
Count(qs, db) == Cardinality(ResultRows(qs, db))

\* list(queryset): the possible result lists
Fetch(qs, db) ==
    {[i \in 1..Len(s) |-> FromDb(s[i][1])] : s \in Orderings(qs, db)}

\* list(queryset[:limit])
Slice(list, limit) == SubSeq(list, 1, Min(limit, Len(list)))

\* ---------------------------------------------------------------- results

RECURSIVE attrgetter(_, _)
attrgetter(field, obj) ==
    IF Len(field) = 1
    THEN obj[field[1]]
    ELSE attrgetter(SubSeq(field, 3, Len(field)), obj[field[1]])

\* str(x) of a model without __str__: "Item object (pk)"
StrOf(obj) == <<"Item object", obj["pk"]>>

\* a dict as the sequence of its <<key, value>> pairs in insertion order
DictPut(d, k, v) ==
    IF \E i \in 1..Len(d) : d[i][1] = k
    THEN [i \in 1..Len(d) |-> IF d[i][1] = k THEN <<k, v>> ELSE d[i]]
    ELSE Append(d, <<k, v>>)

RECURSIVE ContextUpTo(_, _, _)
ContextUpTo(context_fields, obj, n) ==
    IF n = 0
    THEN <<>>
    ELSE DictPut(ContextUpTo(context_fields, obj, n - 1),
                 context_fields[n], attrgetter(context_fields[n], obj))

\* the value taken from the label's field
DropdownItem_ValueFromLabel(label_field, value_field, context_fields, obj) ==
    [label |-> IF label_field # None THEN attrgetter(label_field, obj) ELSE StrOf(obj),
     value |-> attrgetter(IF label_field # None THEN label_field ELSE value_field, obj),
     context |-> ContextUpTo(context_fields, obj, Len(context_fields))]

DropdownItem(label_field, value_field, context_fields, obj) ==
    [label |-> IF label_field # None THEN attrgetter(label_field, obj) ELSE StrOf(obj),
     value |-> attrgetter(value_field, obj),
     context |-> ContextUpTo(context_fields, obj, Len(context_fields))]

Results(label_field, value_field, context_fields, list) ==
    [i \in 1..Len(list) |-> DropdownItem(label_field, value_field, context_fields, list[i])]

\* the limit applied without looking at its value
Limited_IgnoringZero(no_limit, limit) == ~no_limit

\* "if not no_limit and DROPDOWN_LIMIT"
Limited(no_limit, limit) == (~no_limit) /\ limit # 0

\* ------------------------------------------------------------ from_choices

\* context of a DropdownItem built without one
DefaultContext == <<>>

\* sorting on the value instead of the label
InsertSorted_ByValue(s, x) ==
    LET k == Cardinality({i \in 1..Len(s) : s[i].value <= x.value})
    IN SubSeq(s, 1, k) \o <<x>> \o SubSeq(s, k + 1, Len(s))

\* sorted() is stable: x goes after every element whose key is not greater
InsertSorted(s, x) ==
    LET k == Cardinality({i \in 1..Len(s) : s[i].label <= x.label})
    IN SubSeq(s, 1, k) \o <<x>> \o SubSeq(s, k + 1, Len(s))

RECURSIVE SortedByLabel(_, _)
SortedByLabel(s, n) ==
    IF n = 0 THEN <<>> ELSE InsertSorted(SortedByLabel(s, n - 1), s[n])

from_choices(cs) ==
    LET sorted == SortedByLabel(cs, Len(cs))
    IN [i \in 1..Len(sorted) |->
          [label |-> sorted[i].label, value |-> sorted[i].value,
           context |-> DefaultContext]]

ChoiceLabels == {1, 2}
ChoiceMembers == [label : ChoiceLabels, value : 1..MaxChoices]

\* the members of a Choices enumeration, in definition order: values are unique
ChoiceInputs ==
    {cs \in UNION {[1..n -> ChoiceMembers] : n \in 0..MaxChoices} :
        \A i, j \in 1..Len(cs) : i # j => cs[i].value # cs[j].value}

\* ------------------------------------------------------------------- state

VARIABLES
    settings,        \* django settings as found at import time
    DROPDOWN_LIMIT,  \* the module global
    import_error,    \* exception that escaped the module body, "" if none
    db,              \* the item table
    pc,              \* where the process is
    args,            \* arguments of the from_model call in progress
    related_items,   \* what is passed to select_related
    queryset,        \* the query description
    count,           \* returned total
    result_list,     \* materialized records
    items,           \* returned items
    repeated,        \* the call in progress repeats the previous one
    prev,            \* <<items, count>> returned by the previous call
    choices,         \* argument of from_choices
    choice_items     \* what from_choices returned

vars == <<settings, DROPDOWN_LIMIT, import_error, db, pc, args, related_items,
          queryset, count, result_list, items, repeated, prev, choices, choice_items>>

NoArgs == [label_field |-> None, value_field |-> F_pk, q_filter |-> "None",
           no_limit |-> TRUE, context_fields |-> <<>>]

Init ==
    /\ settings \in SettingsStates
    /\ DROPDOWN_LIMIT = 0
    /\ import_error = ""
    /\ db \in Databases
    /\ pc = "import"
    /\ args = NoArgs
    /\ related_items = <<>>
    /\ queryset = BuildQueryset(None, F_pk, "None", <<>>)
    /\ count = 0
    /\ result_list = <<>>
    /\ items = <<>>
    /\ repeated = FALSE
    /\ prev = <<>>
    /\ choices = <<>>
    /\ choice_items = <<>>

\* lines 10-13
ModuleInit ==
    /\ pc = "import"
    /\ \/ /\ SettingsLookup(settings) = ""
          /\ DROPDOWN_LIMIT' = settings.LIMIT
          /\ pc' = "idle"
          /\ UNCHANGED import_error
       \/ /\ SettingsLookup(settings) \in CaughtAtImport
          /\ DROPDOWN_LIMIT' = DefaultLimit
          /\ pc' = "idle"
          /\ UNCHANGED import_error
       \/ /\ SettingsLookup(settings) \notin CaughtAtImport \cup {""}
          /\ import_error' = SettingsLookup(settings)
          /\ pc' = "import_failed"
          /\ UNCHANGED DROPDOWN_LIMIT
    /\ UNCHANGED <<settings, db, args, related_items, queryset, count, result_list,
                   items, repeated, prev, choices, choice_items>>

\* from_model up to its first database read: lines 35-77, or 35-90 when unlimited
Invoke(label_field, value_field, q_filter, no_limit, context_fields) ==
    LET qs == BuildQueryset(label_field, value_field, q_filter, context_fields)
    IN /\ args' = [label_field |-> label_field, value_field |-> value_field,
                   q_filter |-> q_filter, no_limit |-> no_limit,
                   context_fields |-> context_fields]
       /\ related_items' = related_items_of(label_field, value_field, context_fields)
       /\ queryset' = qs
       /\ IF Limited(no_limit, DROPDOWN_LIMIT)
          THEN /\ count' = Count(qs, db)
               /\ result_list' = <<>>
               /\ items' = <<>>
               /\ pc' = "counted"
          ELSE \E l \in Fetch(qs, db) :
               /\ result_list' = l
               /\ count' = Len(l)
               /\ items' = Results(label_field, value_field, context_fields, l)
               /\ pc' = "done"

FromModelBegin(label_field, value_field, q_filter, no_limit, context_fields) ==
    /\ pc = "idle"
    /\ Invoke(label_field, value_field, q_filter, no_limit, context_fields)
    /\ UNCHANGED <<settings, DROPDOWN_LIMIT, import_error, db, repeated, prev,
                   choices, choice_items>>

\* lines 78-90 of a limited call: the second database read, then the results
FromModelSlice ==
    /\ pc = "counted"
    /\ \E l \in Fetch(queryset, db) :
          /\ result_list' = Slice(l, DROPDOWN_LIMIT)
          /\ items' = Results(args.label_field, args.value_field, args.context_fields,
                              Slice(l, DROPDOWN_LIMIT))
    /\ pc' = "done"
    /\ UNCHANGED <<settings, DROPDOWN_LIMIT, import_error, db, args, related_items,
                   queryset, count, repeated, prev, choices, choice_items>>

\* the caller calls from_model again with the same arguments
FromModelAgain ==
    /\ pc = "done"
    /\ ~repeated
    /\ repeated' = TRUE
    /\ prev' = <<items, count>>
    /\ Invoke(args.label_field, args.value_field, args.q_filter, args.no_limit,
              args.context_fields)
    /\ UNCHANGED <<settings, DROPDOWN_LIMIT, import_error, db, choices, choice_items>>

\* another process commits a write to the item table while a limited call is
\* between its two queries (a write at any other moment leaves the call with
\* a table that Init already provides)
InsertItem(row) ==
    /\ pc = "counted"
    /\ \A r \in db : r.pk # row.pk
    /\ db' = db \cup {row}
    /\ UNCHANGED <<settings, DROPDOWN_LIMIT, import_error, pc, args, related_items,
                   queryset, count, result_list, items, repeated, prev, choices,
                   choice_items>>

DeleteItem(row) ==
    /\ pc = "counted"
    /\ row \in db
    /\ db' = db \ {row}
    /\ UNCHANGED <<settings, DROPDOWN_LIMIT, import_error, pc, args, related_items,
                   queryset, count, result_list, items, repeated, prev, choices,
                   choice_items>>

FromChoices ==
    /\ pc = "choices_call"
    /\ choice_items' = from_choices(choices)
    /\ pc' = "choices_done"
    /\ UNCHANGED <<settings, DROPDOWN_LIMIT, import_error, db, args, related_items,
                   queryset, count, result_list, items, repeated, prev, choices>>

Next ==
    \/ ModuleInit
    \/ \E lf \in LabelFields, vf \in ValueFields, qf \in QFilters, nl \in BOOLEAN,
          cf \in ContextFieldLists : FromModelBegin(lf, vf, qf, nl, cf)
    \/ FromModelSlice
    \/ FromModelAgain

\* one process, the item table unchanged while it runs
Spec == Init /\ [][Next]_vars

NextConc ==
    \/ ModuleInit
    \/ \E lf \in LabelFields, vf \in ValueFields, qf \in QFilters, nl \in BOOLEAN,
          cf \in ContextFieldLists : FromModelBegin(lf, vf, qf, nl, cf)
    \/ FromModelSlice
    \/ \E row \in ItemRows : InsertItem(row)
    \/ \E row \in ItemRows : DeleteItem(row)

\* one call of from_model, other processes writing the item table meanwhile
SpecConc == Init /\ [][NextConc]_vars

InitChoices ==
    /\ settings = [kind |-> "unconfigured", LIMIT |-> 0]
    /\ DROPDOWN_LIMIT = DefaultLimit
    /\ import_error = ""
    /\ db = {}
    /\ pc = "choices_call"
    /\ args = NoArgs
    /\ related_items = <<>>
    /\ queryset = BuildQueryset(None, F_pk, "None", <<>>)
    /\ count = 0
    /\ result_list = <<>>
    /\ items = <<>>
    /\ repeated = FALSE
    /\ prev = <<>>
    /\ choices \in ChoiceInputs
    /\ choice_items = <<>>

NextChoices == FromChoices

SpecChoices == InitChoices /\ [][NextChoices]_vars

\* ------------------------------------------------------------------ claims

\* the items of the table that pass a filter, stated on the table itself
Matching(table, q_filter) ==
    CASE q_filter = "None" -> table
      [] q_filter = "name=1" -> {it \in table : it.name = 1}
      [] OTHER -> {it \in table : \E t \in TagTable : t.item = it.pk}

\* the value a field path names on an item of the table
FieldOf(it, field) ==
    CASE field = F_pk -> it.pk
      [] field = F_name -> it.name
      [] OTHER -> DeptTable[it.dept_id].name

\* the item a call is expected to return for a table row
ExpectedItem(it) ==
    [label |-> IF args.label_field = None
               THEN <<"Item object", it.pk>>
               ELSE FieldOf(it, args.label_field),
     value |-> FieldOf(it, args.value_field),
     context |-> [j \in 1..Len(args.context_fields) |->
                     <<args.context_fields[j], FieldOf(it, args.context_fields[j])>>]]

OrderField == IF args.label_field = None THEN args.value_field ELSE args.label_field

RowOfPk(pk) == CHOOSE it \in db : it.pk = pk

ReturnedPks == {result_list[i]["pk"] : i \in 1..Len(result_list)}

IsLimited == (~args.no_limit) /\ DROPDOWN_LIMIT # 0

\* C1: a limited call (no_limit false, limit non-zero) returns as total the
\* number of distinct records passing the filter, and as items the first
\* min(limit, total) of them in ascending order of the ordering field.
C1_LimitContract ==
    (pc = "done" /\ IsLimited) =>
        LET M == Matching(db, args.q_filter)
            n == Len(items)
        IN /\ count = Cardinality(M)
           /\ n = Min(DROPDOWN_LIMIT, count)
           /\ Len(result_list) = n
           /\ Cardinality(ReturnedPks) = n
           /\ ReturnedPks \subseteq {it.pk : it \in M}
           /\ \A i \in 1..n : items[i] = ExpectedItem(RowOfPk(result_list[i]["pk"]))
           /\ \A i \in 1..n : \A j \in 1..n : i < j =>
                 FieldOf(RowOfPk(result_list[i]["pk"]), OrderField)
                    <= FieldOf(RowOfPk(result_list[j]["pk"]), OrderField)
           /\ \A it \in M : it.pk \notin ReturnedPks =>
                 \A i \in 1..n : FieldOf(RowOfPk(result_list[i]["pk"]), OrderField)
                                    <= FieldOf(it, OrderField)

C1_Witness ==
    /\ pc = "done"
    /\ IsLimited
    /\ args.q_filter = "name=1"
    /\ Len(items) = 1
    /\ count = 2
    /\ Cardinality(db) > count

\* C2: with no_limit true, or a configured limit of zero, every record that
\* passes the filter is returned exactly once, nothing else is, and total is
\* the number of items.
C2_Unlimited ==
    (pc = "done" /\ (args.no_limit \/ DROPDOWN_LIMIT = 0)) =>
        /\ ReturnedPks = {it.pk : it \in Matching(db, args.q_filter)}
        /\ Len(result_list) = Cardinality(ReturnedPks)
        /\ Len(items) = Len(result_list)
        /\ count = Len(items)

C2_Witness ==
    /\ pc = "done"
    /\ args.no_limit
    /\ DROPDOWN_LIMIT = 1
    /\ args.q_filter = "name=1"
    /\ Len(items) = 2
    /\ Cardinality(db) = 3

\* C3: the items come in ascending order of the label when label_field is
\* given and of the value when it is not, limited or not, whatever the filter.
C3_Ascending ==
    pc = "done" =>
        \A i \in 1..Len(items) : \A j \in 1..Len(items) : i < j =>
            IF args.label_field = None
            THEN items[i].value <= items[j].value
            ELSE items[i].label <= items[j].label

C3_Witness ==
    /\ pc = "done"
    /\ args.label_field = F_name
    /\ args.value_field = F_pk
    /\ Len(items) = 2
    /\ items[1].label < items[2].label
    /\ items[1].value > items[2].value

\* C4: a call reads the source once, so total and items come from one state
\* of the table even when it is written during the call: in particular no
\* more items are returned than total.
C4_SingleRead ==
    pc = "done" =>
        /\ Len(items) <= count
        /\ count = Cardinality(Matching(db, args.q_filter))

\* C5: no two returned items are equal on label, value and context.
C5_NoEqualItems ==
    pc = "done" =>
        \A i \in 1..Len(items) : \A j \in 1..Len(items) : i # j => items[i] # items[j]

\* C6: a second call with the same arguments on the unchanged table returns
\* the same items, in the same order, and the same total.
C6_Repeatable ==
    (pc = "done" /\ repeated) => <<items, count>> = prev

\* the value a field path names on a materialized record
AttrOf(obj, field) ==
    CASE field = F_pk -> obj["pk"]
      [] field = F_name -> obj["name"]
      [] OTHER -> obj["dept"]["name"]

\* C7: items is the element-wise projection of the materialized records:
\* same length and order, label, value and context taken from record i at
\* the requested paths, the context keys being the requested fields in
\* request order; and record i carries the values of its row of the table.
C7_Projection ==
    pc = "done" =>
        /\ Len(items) = Len(result_list)
        /\ \A i \in 1..Len(items) :
              LET x == result_list[i]
                  cf == args.context_fields
              IN /\ items[i].label = IF args.label_field = None
                                     THEN <<"Item object", x["pk"]>>
                                     ELSE AttrOf(x, args.label_field)
                 /\ items[i].value = AttrOf(x, args.value_field)
                 /\ Len(items[i].context) = Len(cf)
                 /\ \A j \in 1..Len(cf) :
                       items[i].context[j] = <<cf[j], AttrOf(x, cf[j])>>
                 /\ items[i] = ExpectedItem(RowOfPk(x["pk"]))

C7_Witness ==
    /\ pc = "done"
    /\ args.label_field = F_dept_name
    /\ args.value_field = F_name
    /\ args.context_fields = <<F_dept_name, F_name>>
    /\ Len(items) = 3
    /\ items[1].label # items[3].label
    /\ items[1].value # items[2].value

C9_Fallback ==
    (pc # "import" /\ settings.kind # "dict") =>
        /\ import_error = ""
        /\ DROPDOWN_LIMIT = DefaultLimit

\* C10: no relation is passed to select_related more than once.
C10_RelatedOnce ==
    pc \in {"counted", "done"} =>
        \A i \in 1..Len(related_items) : \A j \in 1..Len(related_items) :
            i # j => related_items[i] # related_items[j]

====
